---- MODULE Spec2Model ----
(***************************************************************************)
(* The segmentation commands module (commandsModule): loading a            *)
(* segmentation into a viewport, generating the DICOM SEG label-map        *)
(* summary, the download / PDF / RTSS / store actions and the tool         *)
(* configuration actions, together with the services they call.            *)
(*                                                                         *)
(* One command runs at a time.  A synchronous action is one step; an       *)
(* asynchronous action is one step per await, pc naming the promise it is  *)
(* suspended on.  Calls into the imaging, DICOM, PDF and capture libraries *)
(* are environment steps whose outcome (resolve / reject, returned value)  *)
(* is chosen by the environment.                                           *)
(***************************************************************************)
EXTENDS Integers, Sequences, FiniteSets, TLC

\* ----------------------------------------------------------------- bounds
MaxSlices == 2      \* most images (slices) in a label map
PixelCount == 2     \* pixels in one slice (rows * columns)
MaxSegment == 1     \* largest segment index a pixel may hold
MaxMetadata == 1    \* most metadata entries the SEG adapter's result carries
MaxToolNames == 2   \* longest toolNames list passed to a tool command

\* ------------------------------------------------------------ JS constants
Undefined == "undefined"

SegmentationIds == {"seg1", "seg2"}
ViewportIds == {"vp1", "vp2", "vp3"}

Range(s) == {s[i] : i \in 1..Len(s)}

\* ------------------------------------------------------------ state
VARIABLES
    pc,                 \* "idle", the await the running action is suspended on, or
                        \* "done" when the call has settled
    cmd,                \* the command name last dispatched
    invoked,            \* the action function the dispatch invoked, or Undefined
    args,               \* the argument object of the call
    outcome,            \* "none" | "pending" | "returned" | "threw"
    ret,                \* the value returned to the caller
    local,              \* the running action's local variables across awaits
    labelmapImages,     \* cornerstone segmentation state + image cache: id -> slices
    ohifSegmentations,  \* segmentationService registry: id -> segmentation
    representations,    \* segmentationService: id -> viewports it is shown in
    labelmap3D,         \* the label-map summary built by the last generateSegmentation
    effects,            \* side effects of the call, in order
    toolCalls,          \* tool configuration calls of the call, in order
    pdf                 \* the PDF document built by the call

vars == <<pc, cmd, invoked, args, outcome, ret, local, labelmapImages,
          ohifSegmentations, representations, labelmap3D, effects, toolCalls, pdf>>

\* ------------------------------------------------ generateSegmentation
PixelValues == 0..MaxSegment
PixelBuffers == [1..PixelCount -> PixelValues]
SliceSeqs == UNION {[1..n -> PixelBuffers] : n \in 0..MaxSlices}

\* Set.prototype.add on an insertion-ordered set held as a sequence
SetAdd(set, x) == IF x \in Range(set) THEN set ELSE Append(set, x)

\* the single pass over pixelData (lines 139-144), from index i on
RECURSIVE ScanPixelsKeepZero(_, _, _)
ScanPixelsKeepZero(pixelData, i, acc) ==
    IF i > Len(pixelData) THEN acc
    ELSE ScanPixelsKeepZero(pixelData, i + 1, SetAdd(acc, pixelData[i]))

RECURSIVE ScanPixelsLoop(_, _, _)
ScanPixelsLoop(pixelData, i, acc) ==
    IF i > Len(pixelData) THEN acc
    ELSE ScanPixelsLoop(pixelData, i + 1,
            IF pixelData[i] # 0 THEN SetAdd(acc, pixelData[i]) ELSE acc)

ScanPixels(pixelData, i, acc) == ScanPixelsLoop(pixelData, i, acc)

\* one labelmaps2D entry (lines 134-151)
Labelmap2D(pixelData) ==
    [segmentsOnLabelmap |-> ScanPixels(pixelData, 1, <<>>),
     pixelData |-> pixelData]

\* Array.prototype.flat on an array of arrays
RECURSIVE Flat(_)
Flat(arrays) ==
    IF arrays = <<>> THEN <<>> ELSE Head(arrays) \o Flat(Tail(arrays))

\* Array.from(new Set(array))
RECURSIVE SetFromArray(_, _)
SetFromArray(array, acc) ==
    IF array = <<>> THEN acc
    ELSE SetFromArray(Tail(array), SetAdd(acc, Head(array)))

ArrayFromSetNoDedup(array) == array

ArrayFromSet(array) == SetFromArray(array, <<>>)

\* labelmap3D before the metadata is attached (lines 129-160)
BuildLabelmap3D(segImages) ==
    LET labelmaps2D == [z \in 1..Len(segImages) |-> Labelmap2D(segImages[z])]
        allSegmentsOnLabelmap ==
            [z \in 1..Len(labelmaps2D) |-> labelmaps2D[z].segmentsOnLabelmap]
    IN  [segmentsOnLabelmap |-> ArrayFromSet(Flat(allSegmentsOnLabelmap)),
         metadata |-> <<>>,
         labelmaps2D |-> labelmaps2D]

NoLabelmap3D == [segmentsOnLabelmap |-> <<>>, metadata |-> <<>>, labelmaps2D |-> <<>>]

\* what the SEG adapter may do with (referencedImages, labelmap3D, metaData, options)
AdapterResults ==
    {[throws |-> TRUE, dataset |-> FALSE, metadata |-> 0]} \cup
    {[throws |-> FALSE, dataset |-> d, metadata |-> m] :
        d \in BOOLEAN, m \in 0..MaxMetadata}

\* actions.generateSegmentation (lines 121-212) in the registries (lm, ohif,
\* reps): it threw, or it returns the adapter's result; labelmap3D is the
\* summary as far as it was built
GenerateSegmentation(segmentationId, adapter, lm, ohif, reps) ==
    IF segmentationId \notin DOMAIN lm
    THEN [threw |-> TRUE, labelmap3D |-> NoLabelmap3D, value |-> adapter]
    ELSE LET summary == BuildLabelmap3D(lm[segmentationId])
         IN  IF segmentationId \notin DOMAIN ohif
             THEN [threw |-> TRUE, labelmap3D |-> summary, value |-> adapter]
             ELSE IF ohif[segmentationId].segments # {} /\ reps[segmentationId] = {}
             THEN [threw |-> TRUE, labelmap3D |-> summary, value |-> adapter]
             ELSE [threw |-> adapter.throws,
                   labelmap3D |->
                       [summary EXCEPT !.metadata =
                           [i \in ohif[segmentationId].segments |-> "segmentMetadata"]],
                   value |-> adapter]

\* ------------------------------------------------------- command table
\* the keys of the actions object (lines 71-508)
Actions ==
    {"loadSegmentationsForViewport", "generateSegmentation", "downloadSegmentation",
     "downloadSegmentationPdf", "storeSegmentation", "downloadRTSS",
     "setBrushSize", "setThresholdRange"}

\* the keys of the definitions object (lines 510-545)
DefinitionNames ==
    {"loadSegmentationDisplaySetsForViewport", "loadSegmentationsForViewport",
     "generateSegmentation", "downloadSegmentation", "downloadSegmentationPdf",
     "storeSegmentation", "downloadRTSS", "setBrushSize", "setThresholdRange"}

\* actions.<name>: a property read of the actions object
ActionsGet(name) == IF name \in Actions THEN name ELSE Undefined

\* definitions[name].commandFn: every entry reads actions.<its own name>
CommandFn(name) == ActionsGet(name)

\* ------------------------------------------------------- initial state
NoRet == [kind |-> "undefined"]
NoLocal == [none |-> TRUE]
NoArgs == [none |-> TRUE]
NoPdf == [created |-> FALSE, pages |-> 0, image |-> Undefined,
          segments |-> 0, segmentInfo |-> Undefined, saved |-> FALSE]

EmptyRegistry == [id \in {} |-> Undefined]

Init ==
    /\ pc = "idle"
    /\ cmd = Undefined
    /\ invoked = Undefined
    /\ args = NoArgs
    /\ outcome = "none"
    /\ ret = NoRet
    /\ local = NoLocal
    /\ labelmapImages = EmptyRegistry
    /\ ohifSegmentations = EmptyRegistry
    /\ representations = [id \in SegmentationIds |-> {}]
    /\ labelmap3D = NoLabelmap3D
    /\ effects = <<>>
    /\ toolCalls = <<>>
    /\ pdf = NoPdf

\* the host dispatches command name with argument object a: the per-call
\* record is cleared and definitions[name].commandFn is looked up
Dispatch(name, a) ==
    /\ pc = "idle"
    /\ name \in DefinitionNames
    /\ cmd' = name
    /\ invoked' = CommandFn(name)
    /\ args' = a

registries == <<labelmapImages, ohifSegmentations, representations>>

\* a command whose commandFn is undefined: no action runs
RunUnboundCommand ==
    /\ \E name \in DefinitionNames :
          /\ CommandFn(name) = Undefined
          /\ Dispatch(name, NoArgs)
    /\ outcome' = "notInvoked"
    /\ ret' = NoRet
    /\ local' = NoLocal
    /\ labelmap3D' = NoLabelmap3D
    /\ effects' = <<>>
    /\ toolCalls' = <<>>
    /\ pdf' = NoPdf
    /\ pc' = "done"
    /\ UNCHANGED registries

\* --------------------------------------------- generateSegmentation command
GeneratedValue(adapter) ==
    [kind |-> "generatedSegmentation", dataset |-> adapter.dataset,
     metadata |-> adapter.metadata]

RunGenerateSegmentation ==
    \E segmentationId \in SegmentationIds, adapter \in AdapterResults :
        LET r == GenerateSegmentation(segmentationId, adapter, labelmapImages,
                                      ohifSegmentations, representations)
        IN  /\ Dispatch("generateSegmentation", [segmentationId |-> segmentationId])
            /\ labelmap3D' = r.labelmap3D
            /\ outcome' = IF r.threw THEN "threw" ELSE "returned"
            /\ ret' = IF r.threw THEN NoRet ELSE GeneratedValue(r.value)
            /\ effects' = <<"generateSegmentation">>
            /\ local' = NoLocal
            /\ toolCalls' = <<>>
            /\ pdf' = NoPdf
            /\ pc' = "done"
            /\ UNCHANGED registries

\* --------------------------------------------- downloadSegmentation command
\* actions.downloadSegmentation (lines 223-230)
RunDownloadSegmentation ==
    \E segmentationId \in SegmentationIds, adapter \in AdapterResults :
        LET r == GenerateSegmentation(segmentationId, adapter, labelmapImages,
                                      ohifSegmentations, representations)
        IN  /\ Dispatch("downloadSegmentation", [segmentationId |-> segmentationId])
            /\ labelmap3D' = r.labelmap3D
            /\ outcome' = IF r.threw THEN "threw" ELSE "returned"
            /\ ret' = NoRet
            /\ effects' = IF r.threw THEN <<"generateSegmentation">>
                          ELSE <<"generateSegmentation", "downloadDICOMData">>
            /\ local' = NoLocal
            /\ toolCalls' = <<>>
            /\ pdf' = NoPdf
            /\ pc' = "done"
            /\ UNCHANGED registries

\* ------------------------------------------ loadSegmentationsForViewport
\* viewportGridService.getState(): the ids in the viewports map, and the
\* values activeViewportId may hold (null when no viewport is active)
GridViewportIds == {"vp1", "vp2"}
ActiveViewportIds == GridViewportIds \cup {Undefined}

\* images of the display set a viewport shows: createLabelmapForDisplaySet
\* makes one empty (all zero) label-map slice per image
EmptySlice == [i \in 1..PixelCount |-> 0]
EmptyLabelmap == [z \in 1..MaxSlices |-> EmptySlice]

\* the segment lists a segmentation's config may carry
SegmentConfigs == SUBSET (1..MaxSegment)

\* getTargetViewport (lines 30-37); a viewport object is named by its id
TargetViewportIdActiveFirst(viewportId, activeViewportId) ==
    IF activeViewportId # Undefined THEN activeViewportId ELSE viewportId

TargetViewportId(viewportId, activeViewportId) ==
    IF viewportId # Undefined THEN viewportId ELSE activeViewportId

GetTargetViewport(viewportId, activeViewportId) ==
    LET targetViewportId == TargetViewportId(viewportId, activeViewportId)
    IN  IF targetViewportId \in GridViewportIds THEN targetViewportId ELSE Undefined

Put(registry, id, value) ==
    [x \in DOMAIN registry \cup {id} |-> IF x = id THEN value ELSE registry[x]]

LoadInputs ==
    {<<>>} \cup
    {<<[segmentationId |-> id, segments |-> segs]>> :
        id \in SegmentationIds, segs \in SegmentConfigs}

\* lines 82-98: up to the await of createLabelmapForDisplaySet
RunLoadSegmentationsForViewport ==
    \E segmentations \in LoadInputs, viewportId \in ViewportIds \cup {Undefined},
       activeViewportId \in ActiveViewportIds :
        LET viewport == GetTargetViewport(viewportId, activeViewportId)
            threw == viewport = Undefined \/ segmentations = <<>>
        IN  /\ Dispatch("loadSegmentationsForViewport",
                        [segmentations |-> segmentations, viewportId |-> viewportId,
                         activeViewportId |-> activeViewportId])
            /\ pc' = IF threw THEN "done" ELSE "load_createLabelmapForDisplaySet"
            /\ outcome' = IF threw THEN "threw" ELSE "pending"
            /\ local' = IF threw THEN NoLocal
                        ELSE [viewport |-> viewport,
                              segmentationId |-> segmentations[1].segmentationId,
                              segments |-> segmentations[1].segments]
            /\ effects' = IF threw THEN <<>> ELSE <<"createLabelmapForDisplaySet">>
            /\ ret' = NoRet
            /\ labelmap3D' = NoLabelmap3D
            /\ toolCalls' = <<>>
            /\ pdf' = NoPdf
            /\ UNCHANGED registries

\* lines 94-104: createLabelmapForDisplaySet settles; on success the segmentation
\* is registered and addSegmentationRepresentation is awaited
LoadCreateLabelmapSettled ==
    /\ pc = "load_createLabelmapForDisplaySet"
    /\ \E resolved \in BOOLEAN :
        IF resolved
        THEN /\ labelmapImages' = Put(labelmapImages, local.segmentationId, EmptyLabelmap)
             /\ ohifSegmentations' = Put(ohifSegmentations, local.segmentationId,
                                         [segments |-> local.segments])
             /\ effects' = effects \o <<"addOrUpdateSegmentation",
                                        "addSegmentationRepresentation">>
             /\ pc' = "load_addSegmentationRepresentation"
             /\ UNCHANGED outcome
        ELSE /\ pc' = "done"
             /\ outcome' = "threw"
             /\ UNCHANGED <<labelmapImages, ohifSegmentations, effects>>
    /\ UNCHANGED <<cmd, invoked, args, ret, local, representations, labelmap3D,
                   toolCalls, pdf>>

\* lines 102-106: addSegmentationRepresentation settles
LoadAddRepresentationSettled ==
    /\ pc = "load_addSegmentationRepresentation"
    /\ pc' = "done"
    /\ \E resolved \in BOOLEAN :
        IF resolved
        THEN /\ representations' =
                    [representations EXCEPT ![local.segmentationId] = @ \cup {local.viewport}]
             /\ outcome' = "returned"
             /\ ret' = [kind |-> "segmentationId", segmentationId |-> local.segmentationId]
        ELSE /\ outcome' = "threw"
             /\ UNCHANGED <<representations, ret>>
    /\ UNCHANGED <<cmd, invoked, args, local, labelmapImages, ohifSegmentations,
                   labelmap3D, effects, toolCalls, pdf>>

\* ------------------------------------------------ downloadSegmentationPdf
\* document.querySelector(`div[data-viewport-uid="${id}"]`): the grid renders
\* one such element per viewport it holds
ViewportElementAlwaysFound(targetViewportId) == TRUE

ViewportElementFound(targetViewportId) == targetViewportId \in GridViewportIds

\* lines 286-298: the guarded generation step, with the fallback { metadata: [] }
GeneratedOrRethrow(r) ==
    IF r.threw THEN [failed |-> TRUE, metadata |-> 0]
    ELSE [failed |-> FALSE, metadata |-> r.value.metadata]

GeneratedOrFallback(r) ==
    IF r.threw THEN [failed |-> FALSE, metadata |-> 0]
    ELSE [failed |-> FALSE, metadata |-> r.value.metadata]

\* lines 314-320: the segment lines of the text block
SegmentInfo(metadataLength) ==
    IF metadataLength > 0 THEN "segment lines" ELSE "No segment metadata available"

\* lines 253-284: the lookups, the viewport element and the call of html2canvas
RunDownloadSegmentationPdf ==
    \E segmentationId \in SegmentationIds, viewportId \in ViewportIds \cup {Undefined},
       activeViewportId \in ActiveViewportIds :
        LET targetViewportId == TargetViewportId(viewportId, activeViewportId)
            threw == \/ segmentationId \notin DOMAIN ohifSegmentations
                     \/ segmentationId \notin DOMAIN labelmapImages
                     \/ ~ViewportElementFound(targetViewportId)
        IN  /\ Dispatch("downloadSegmentationPdf",
                        [segmentationId |-> segmentationId, viewportId |-> viewportId,
                         activeViewportId |-> activeViewportId])
            /\ pc' = IF threw THEN "done" ELSE "pdf_html2canvas"
            /\ outcome' = IF threw THEN "threw" ELSE "pending"
            /\ effects' = IF threw THEN <<>> ELSE <<"html2canvas">>
            /\ local' = [targetViewportId |-> targetViewportId, canvas |-> FALSE,
                         generationThrew |-> FALSE]
            /\ ret' = NoRet
            /\ labelmap3D' = NoLabelmap3D
            /\ toolCalls' = <<>>
            /\ pdf' = NoPdf
            /\ UNCHANGED registries

\* lines 284-301: html2canvas settles; on success the generation step runs and
\* PDFDocument.create is awaited
PdfCaptureSettled ==
    /\ pc = "pdf_html2canvas"
    /\ \E resolved \in BOOLEAN, adapter \in AdapterResults :
        LET r == GenerateSegmentation(args.segmentationId, adapter, labelmapImages,
                                      ohifSegmentations, representations)
            g == GeneratedOrFallback(r)
        IN  IF resolved /\ ~g.failed
            THEN /\ pc' = "pdf_create"
                 /\ local' = [local EXCEPT !.canvas = TRUE, !.generationThrew = r.threw]
                 /\ labelmap3D' = r.labelmap3D
                 /\ pdf' = [pdf EXCEPT !.segments = g.metadata,
                                       !.segmentInfo = SegmentInfo(g.metadata)]
                 /\ effects' = effects \o <<"generateSegmentation", "PDFDocument.create">>
                 /\ UNCHANGED outcome
            ELSE /\ pc' = "done"
                 /\ outcome' = "threw"
                 /\ local' = [local EXCEPT !.canvas = resolved,
                                           !.generationThrew = resolved /\ r.threw]
                 /\ labelmap3D' = IF resolved THEN r.labelmap3D ELSE labelmap3D
                 /\ effects' = IF resolved THEN effects \o <<"generateSegmentation">>
                               ELSE effects
                 /\ UNCHANGED pdf
    /\ UNCHANGED <<cmd, invoked, args, ret, registries, toolCalls>>

\* lines 301-305: the document exists, a page of the canvas size is added and
\* embedPng is awaited
PdfCreateSettled ==
    /\ pc = "pdf_create"
    /\ pc' = "pdf_embedPng"
    /\ pdf' = [pdf EXCEPT !.created = TRUE, !.pages = @ + 1]
    /\ effects' = effects \o <<"embedPng">>
    /\ UNCHANGED <<cmd, invoked, args, outcome, ret, local, registries, labelmap3D,
                   toolCalls>>

\* lines 305-349: the image and the text block are drawn and save is awaited
PdfEmbedSettled ==
    /\ pc = "pdf_embedPng"
    /\ pc' = "pdf_save"
    /\ pdf' = [pdf EXCEPT !.image = "viewport canvas"]
    /\ effects' = effects \o <<"drawImage", "drawText", "save">>
    /\ UNCHANGED <<cmd, invoked, args, outcome, ret, local, registries, labelmap3D,
                   toolCalls>>

\* lines 349-361: the bytes become a blob URL and the link is clicked
PdfSaveSettled ==
    /\ pc = "pdf_save"
    /\ pc' = "done"
    /\ pdf' = [pdf EXCEPT !.saved = TRUE]
    /\ effects' = effects \o <<"link.click">>
    /\ outcome' = "returned"
    /\ UNCHANGED <<cmd, invoked, args, ret, local, registries, labelmap3D, toolCalls>>

\* ------------------------------------------------------ storeSegmentation
\* the data sources the extension manager knows, named; getConfig().wadoRoot
DataSourceNames == {"dicomweb", "orthanc"}
ActiveDataSource == "dicomweb"
WadoRoot(dataSource) ==
    IF dataSource = "dicomweb" THEN "https://dicomweb.example/wado"
    ELSE "https://orthanc.example/wado"

\* PROMPT_RESPONSES, as createReportDialogPrompt resolves with them
PromptActions == {"CREATE_REPORT", "CANCEL"}

\* line 403: action === PROMPT_RESPONSES.CREATE_REPORT
ReportRequestedWhateverTheAction(action) == TRUE

ReportRequested(action) == action = "CREATE_REPORT"

\* line 391: dataSource ?? extensionManager.getActiveDataSource()
DefaultDataSource(dataSource) ==
    IF dataSource # Undefined THEN dataSource ELSE ActiveDataSource

\* lines 405-407: the data source named in the prompt, else the default one
SelectedDataSourceConfigIgnoringPrompt(selectedDataSource, defaultDataSource) ==
    defaultDataSource

SelectedDataSourceConfig(selectedDataSource, defaultDataSource) ==
    IF selectedDataSource # Undefined THEN selectedDataSource ELSE defaultDataSource

\* lines 383-401: the lookup and the prompt
RunStoreSegmentation ==
    \E segmentationId \in SegmentationIds, dataSource \in DataSourceNames \cup {Undefined} :
        LET threw == segmentationId \notin DOMAIN ohifSegmentations
        IN  /\ Dispatch("storeSegmentation",
                        [segmentationId |-> segmentationId, dataSource |-> dataSource])
            /\ pc' = IF threw THEN "done" ELSE "store_createReportDialogPrompt"
            /\ outcome' = IF threw THEN "threw" ELSE "pending"
            /\ effects' = IF threw THEN <<>> ELSE <<"createReportDialogPrompt">>
            /\ local' = [defaultDataSource |-> DefaultDataSource(dataSource),
                         action |-> Undefined, selectedDataSource |-> Undefined,
                         selectedDataSourceConfig |-> Undefined]
            /\ ret' = NoRet
            /\ labelmap3D' = NoLabelmap3D
            /\ toolCalls' = <<>>
            /\ pdf' = NoPdf
            /\ UNCHANGED registries

\* lines 422-433, what follows the await of store.dicom: the effects, the
\* outcome and the returned report
AfterStoreDicomIndexingAnyway(resolved, selectedDataSourceConfig) ==
    [effects |-> IF resolved
                 THEN <<"store.dicom:resolved", "DicomMetadataStore.addInstances">>
                 ELSE <<"store.dicom:rejected", "DicomMetadataStore.addInstances">>,
     outcome |-> IF resolved THEN "returned" ELSE "threw",
     ret |-> IF resolved
             THEN [kind |-> "dataset", wadoRoot |-> WadoRoot(selectedDataSourceConfig)]
             ELSE NoRet]

AfterStoreDicom(resolved, selectedDataSourceConfig) ==
    [effects |-> IF resolved
                 THEN <<"store.dicom:resolved", "DicomMetadataStore.addInstances">>
                 ELSE <<"store.dicom:rejected">>,
     outcome |-> IF resolved THEN "returned" ELSE "threw",
     ret |-> IF resolved
             THEN [kind |-> "dataset", wadoRoot |-> WadoRoot(selectedDataSourceConfig)]
             ELSE NoRet]

\* lines 397-422: the prompt resolves; on CREATE_REPORT the dataset is generated
\* and store.dicom is awaited
StorePromptSettled ==
    /\ pc = "store_createReportDialogPrompt"
    /\ \E action \in PromptActions, selectedDataSource \in DataSourceNames \cup {Undefined},
          adapter \in AdapterResults :
        LET r == GenerateSegmentation(args.segmentationId, adapter, labelmapImages,
                                      ohifSegmentations, representations)
            config == SelectedDataSourceConfig(selectedDataSource, local.defaultDataSource)
        IN  IF ~ReportRequested(action)
            THEN /\ pc' = "done"
                 /\ outcome' = "returned"
                 /\ local' = [local EXCEPT !.action = action]
                 /\ UNCHANGED <<effects, labelmap3D>>
            ELSE /\ local' = [local EXCEPT !.action = action,
                                           !.selectedDataSource = selectedDataSource,
                                           !.selectedDataSourceConfig = config]
                 /\ labelmap3D' = r.labelmap3D
                 /\ IF r.threw \/ ~r.value.dataset
                    THEN /\ pc' = "done"
                         /\ outcome' = "threw"
                         /\ effects' = effects \o <<"generateSegmentation">>
                    ELSE /\ pc' = "store_dicom"
                         /\ effects' = effects \o <<"generateSegmentation", "store.dicom">>
                         /\ UNCHANGED outcome
    /\ UNCHANGED <<cmd, invoked, args, ret, registries, toolCalls, pdf>>

\* lines 422-433: store.dicom settles
StoreDicomSettled ==
    /\ pc = "store_dicom"
    /\ pc' = "done"
    /\ \E resolved \in BOOLEAN :
        LET after == AfterStoreDicom(resolved, local.selectedDataSourceConfig)
        IN  /\ effects' = effects \o after.effects
            /\ outcome' = after.outcome
            /\ ret' = after.ret
    /\ UNCHANGED <<cmd, invoked, args, local, registries, labelmap3D, toolCalls, pdf>>

\* ------------------------------------------------------------ downloadRTSS
\* lines 443-469.  The segmentation looked up (possibly undefined) is handed to
\* the RTSS adapter unchecked; the adapter and datasetToBlob are library calls
\* that return or throw, and only the second is inside the try
RunDownloadRTSS ==
    \E segmentationId \in SegmentationIds, adapterThrows \in BOOLEAN,
       blobThrows \in BOOLEAN :
        /\ Dispatch("downloadRTSS", [segmentationId |-> segmentationId])
        /\ local' = [segmentationsFound |-> segmentationId \in DOMAIN ohifSegmentations]
        /\ outcome' = IF adapterThrows THEN "threw" ELSE "returned"
        /\ effects' =
              IF adapterThrows THEN <<"generateRTSSFromSegmentations">>
              ELSE IF blobThrows
                   THEN <<"generateRTSSFromSegmentations", "datasetToBlob", "console.warn">>
                   ELSE <<"generateRTSSFromSegmentations", "datasetToBlob",
                          "window.location.assign">>
        /\ ret' = NoRet
        /\ labelmap3D' = NoLabelmap3D
        /\ toolCalls' = <<>>
        /\ pdf' = NoPdf
        /\ pc' = "done"
        /\ UNCHANGED registries

\* ------------------------------------------- setBrushSize, setThresholdRange
\* toolGroupService.getToolGroupIds(): a missing list, or the ids in order
ToolGroupIdReplies ==
    {[defined |-> FALSE, ids |-> <<>>]} \cup
    {[defined |-> TRUE, ids |-> ids] : ids \in {<<>>, <<"tg1">>, <<"tg1", "tg2">>}}

\* the toolNames argument: omitted, null, or an array of tool names
ToolNameUniverse == {"CircularBrush", "ThresholdCircularBrush"}
ToolNameArrays == UNION {[1..n -> ToolNameUniverse] : n \in 0..MaxToolNames}
ToolNamesArgs ==
    {[kind |-> "undefined", list |-> <<>>], [kind |-> "null", list |-> <<>>]} \cup
    {[kind |-> "array", list |-> list] : list \in ToolNameArrays}

\* lines 485-490: the default of setThresholdRange's toolNames parameter
DefaultThresholdToolNames ==
    <<"ThresholdCircularBrush", "ThresholdSphereBrush",
      "ThresholdCircularBrushDynamic", "ThresholdSphereBrushDynamic">>

\* JS values a caller may pass as the brush size, and Number(value)
JsNumber(n) == [type |-> "number", nan |-> FALSE, num |-> n, str |-> ""]
JsString(str) == [type |-> "string", nan |-> FALSE, num |-> 0, str |-> str]
NaN == [type |-> "number", nan |-> TRUE, num |-> 0, str |-> ""]
BrushValues == {JsNumber(25), JsString("12"), JsString("abc")}

Number(value) ==
    IF value.type = "number" THEN value
    ELSE IF value.str = "12" THEN JsNumber(12)
    ELSE IF value.str = "" THEN JsNumber(0)
    ELSE NaN

ThresholdRanges == {<<0, 100>>, <<50, 200>>}

\* the call made without a tool name (two arguments)
NoToolName == Undefined

ConfigCall(fn, toolGroupId, toolName, value) ==
    [fn |-> fn, toolGroupId |-> toolGroupId, toolName |-> toolName, value |-> value]

\* toolNames?.forEach(toolName => call(toolGroupId, toolName))
ForEachToolName(fn, toolGroupId, list, value) ==
    [k \in 1..Len(list) |-> ConfigCall(fn, toolGroupId, list[k], value)]

\* lines 474-480: the body of setBrushSize's forEach, for one tool group
BrushCallsForGroupNamedOnly(toolGroupId, toolNames, brushSize) ==
    ForEachToolName("setBrushSizeForToolGroup", toolGroupId, toolNames.list, brushSize)

BrushCallsForGroup(toolGroupId, toolNames, brushSize) ==
    IF toolNames.kind = "array" /\ Len(toolNames.list) = 0
    THEN <<ConfigCall("setBrushSizeForToolGroup", toolGroupId, NoToolName, brushSize)>>
    ELSE ForEachToolName("setBrushSizeForToolGroup", toolGroupId, toolNames.list, brushSize)

\* lines 499-505: the body of setThresholdRange's loop, for one tool group
ThresholdCallsForGroup(toolGroupId, list, value) ==
    ForEachToolName("setToolConfiguration", toolGroupId, list, value)

\* lines 470-482: actions.setBrushSize
RECURSIVE BrushCalls(_, _, _)
BrushCalls(toolGroupIds, toolNames, brushSize) ==
    IF toolGroupIds = <<>> THEN <<>>
    ELSE BrushCallsForGroup(Head(toolGroupIds), toolNames, brushSize)
         \o BrushCalls(Tail(toolGroupIds), toolNames, brushSize)

\* lines 497-506: the loop of actions.setThresholdRange
RECURSIVE ThresholdLoop(_, _, _)
ThresholdLoop(toolGroupIds, list, value) ==
    IF toolGroupIds = <<>> THEN <<>>
    ELSE ThresholdCallsForGroup(Head(toolGroupIds), list, value)
         \o ThresholdLoop(Tail(toolGroupIds), list, value)

\* lines 483-507: actions.setThresholdRange
ThresholdCalls(reply, toolNames, value) ==
    IF ~reply.defined \/ Len(reply.ids) = 0 THEN <<>>
    ELSE ThresholdLoop(reply.ids,
                       IF toolNames.kind = "undefined" THEN DefaultThresholdToolNames
                       ELSE toolNames.list,
                       value)

RunSetBrushSize ==
    \E value \in BrushValues, toolNames \in ToolNamesArgs, reply \in ToolGroupIdReplies :
        /\ Dispatch("setBrushSize", [value |-> value, toolNames |-> toolNames])
        /\ local' = [toolGroupIds |-> reply]
        /\ toolCalls' = BrushCalls(reply.ids, toolNames, Number(value))
        /\ outcome' = "returned"
        /\ ret' = NoRet
        /\ labelmap3D' = NoLabelmap3D
        /\ effects' = <<>>
        /\ pdf' = NoPdf
        /\ pc' = "done"
        /\ UNCHANGED registries

RunSetThresholdRange ==
    \E value \in ThresholdRanges, toolNames \in ToolNamesArgs, reply \in ToolGroupIdReplies :
        /\ Dispatch("setThresholdRange", [value |-> value, toolNames |-> toolNames])
        /\ local' = [toolGroupIds |-> reply]
        /\ toolCalls' = ThresholdCalls(reply, toolNames, value)
        /\ outcome' = "returned"
        /\ ret' = NoRet
        /\ labelmap3D' = NoLabelmap3D
        /\ effects' = <<>>
        /\ pdf' = NoPdf
        /\ pc' = "done"
        /\ UNCHANGED registries

\* the host takes the settled result; the call's record is dropped
ReturnToHost ==
    /\ pc = "done"
    /\ pc' = "idle"
    /\ cmd' = Undefined
    /\ invoked' = Undefined
    /\ args' = NoArgs
    /\ outcome' = "none"
    /\ ret' = NoRet
    /\ local' = NoLocal
    /\ labelmap3D' = NoLabelmap3D
    /\ effects' = <<>>
    /\ toolCalls' = <<>>
    /\ pdf' = NoPdf
    /\ UNCHANGED registries

\* ------------------------------------------- a painted segmentation
\* "seg1" is loaded into viewport "vp1" and the brush tools have written any
\* pixel values into any number of its slices; "seg2" is unknown
InitPainted ==
    /\ pc = "idle"
    /\ cmd = Undefined
    /\ invoked = Undefined
    /\ args = NoArgs
    /\ outcome = "none"
    /\ ret = NoRet
    /\ local = NoLocal
    /\ \E segImages \in SliceSeqs : labelmapImages = [id \in {"seg1"} |-> segImages]
    /\ ohifSegmentations = [id \in {"seg1"} |-> [segments |-> {1}]]
    /\ representations = [id \in SegmentationIds |-> IF id = "seg1" THEN {"vp1"} ELSE {}]
    /\ labelmap3D = NoLabelmap3D
    /\ effects = <<>>
    /\ toolCalls = <<>>
    /\ pdf = NoPdf

NextPainted ==
    \/ RunGenerateSegmentation
    \/ ReturnToHost

SpecPainted == InitPainted /\ [][NextPainted]_vars

Next ==
    \/ RunUnboundCommand
    \/ RunGenerateSegmentation
    \/ RunDownloadSegmentation
    \/ RunLoadSegmentationsForViewport
    \/ LoadCreateLabelmapSettled
    \/ LoadAddRepresentationSettled
    \/ RunDownloadSegmentationPdf
    \/ PdfCaptureSettled
    \/ PdfCreateSettled
    \/ PdfEmbedSettled
    \/ PdfSaveSettled
    \/ RunStoreSegmentation
    \/ StorePromptSettled
    \/ StoreDicomSettled
    \/ RunDownloadRTSS
    \/ RunSetBrushSize
    \/ RunSetThresholdRange
    \/ ReturnToHost

Spec == Init /\ [][Next]_vars

\* ======================================================== properties
Count(seq, x) == Cardinality({k \in 1..Len(seq) : seq[k] = x})
NoDuplicates(seq) == Cardinality(Range(seq)) = Len(seq)
Done(name) == pc = "done" /\ cmd = name

\* the slices generateSegmentation read for the call's segmentation id
SegImagesOfCall == labelmapImages[args.segmentationId]

GenerateRan ==
    /\ Done("generateSegmentation")
    /\ args.segmentationId \in DOMAIN labelmapImages

\* C1: after generateSegmentation, labelmaps2D has one entry per slice, in order,
\* and the segmentsOnLabelmap of the entry at a slice's position holds exactly
\* the nonzero values of that slice's pixel buffer, each once and never 0.
C1_PerSliceSegmentsAreTheNonzeroValues ==
    GenerateRan =>
        /\ Len(labelmap3D.labelmaps2D) = Len(SegImagesOfCall)
        /\ \A z \in 1..Len(SegImagesOfCall) :
              LET segs == labelmap3D.labelmaps2D[z].segmentsOnLabelmap
                  pixelData == SegImagesOfCall[z]
              IN  /\ Range(segs) = Range(pixelData) \ {0}
                  /\ NoDuplicates(segs)
                  /\ labelmap3D.labelmaps2D[z].pixelData = pixelData

\* a slice that repeats a nonzero value and a slice that mixes 0 with a nonzero
\* value have been summarised
C1_Witness ==
    /\ GenerateRan
    /\ \E z \in 1..Len(SegImagesOfCall) :
          \E i, j \in 1..PixelCount :
              i # j /\ SegImagesOfCall[z][i] # 0
                    /\ SegImagesOfCall[z][i] = SegImagesOfCall[z][j]
    /\ \E z \in 1..Len(SegImagesOfCall) :
          0 \in Range(SegImagesOfCall[z]) /\ Range(SegImagesOfCall[z]) # {0}

\* C2: after generateSegmentation, the volume-level segmentsOnLabelmap holds
\* exactly the union of the per-slice segment sets, each value once; when no
\* slice holds a nonzero pixel (or there is no slice) it is empty.
C2_VolumeSegmentsAreTheUnion ==
    GenerateRan =>
        /\ Range(labelmap3D.segmentsOnLabelmap) =
              UNION {Range(labelmap3D.labelmaps2D[z].segmentsOnLabelmap) :
                        z \in 1..Len(labelmap3D.labelmaps2D)}
        /\ NoDuplicates(labelmap3D.segmentsOnLabelmap)
        /\ (\A z \in 1..Len(SegImagesOfCall) : Range(SegImagesOfCall[z]) \subseteq {0})
              => labelmap3D.segmentsOnLabelmap = <<>>

\* two slices that share a nonzero value have been aggregated
C2_Witness ==
    /\ GenerateRan
    /\ \E y, z \in 1..Len(SegImagesOfCall) :
          /\ y # z
          /\ (Range(SegImagesOfCall[y]) \cap Range(SegImagesOfCall[z])) \ {0} # {}

DownloadEffects == {"downloadDICOMData", "link.click", "window.location.assign"}
UnknownSegmentation ==
    /\ args.segmentationId \notin DOMAIN labelmapImages
    /\ args.segmentationId \notin DOMAIN ohifSegmentations

PdfElementUnresolved ==
    /\ args.viewportId # Undefined => args.viewportId \notin GridViewportIds
    /\ args.viewportId = Undefined => args.activeViewportId \notin GridViewportIds

PdfCaptureFailed ==
    pc = "done" /\ "html2canvas" \in Range(effects) /\ ~local.canvas

\* C5: downloadSegmentationPdf for a known segmentation whose viewport element
\* cannot be resolved, or whose screen capture fails, throws to the caller
\* without ever invoking generateSegmentation, creating a PDF document or
\* clicking the download link.
C5_PdfAbortsWithoutElementOrCapture ==
    (/\ cmd = "downloadSegmentationPdf"
     /\ args.segmentationId \in DOMAIN ohifSegmentations
     /\ args.segmentationId \in DOMAIN labelmapImages
     /\ (PdfElementUnresolved \/ PdfCaptureFailed))
        => /\ pc = "done" /\ outcome = "threw"
           /\ Range(effects) \cap {"generateSegmentation", "PDFDocument.create",
                                   "link.click"} = {}
           /\ ~pdf.created /\ pdf.pages = 0

C5_Witness ==
    /\ cmd = "downloadSegmentationPdf"
    /\ args.segmentationId \in DOMAIN ohifSegmentations
    /\ args.segmentationId \in DOMAIN labelmapImages
    /\ PdfCaptureFailed
    /\ outcome = "threw"

ExpectedDataSource ==
    IF local.selectedDataSource # Undefined THEN local.selectedDataSource
    ELSE IF args.dataSource # Undefined THEN args.dataSource
    ELSE ActiveDataSource

\* C6: storeSegmentation, once the user has confirmed the prompt, returns the
\* dataset with wadoRoot set to the configured wadoRoot of the data source
\* selected in the prompt (else the default one) when store.dicom resolved, and
\* otherwise throws and returns no dataset; for an unknown segmentation it throws.
C6_StoreReturnsDatasetOrThrows ==
    /\ (Done("storeSegmentation") /\ local.action = "CREATE_REPORT") =>
          IF "store.dicom:resolved" \in Range(effects)
          THEN /\ outcome = "returned"
               /\ ret = [kind |-> "dataset", wadoRoot |-> WadoRoot(ExpectedDataSource)]
          ELSE outcome = "threw" /\ ret = NoRet
    /\ (Done("storeSegmentation") /\ args.segmentationId \notin DOMAIN ohifSegmentations)
          => outcome = "threw" /\ ret = NoRet

\* the prompt named a data source other than the default one and the write succeeded
C6_Witness ==
    /\ Done("storeSegmentation")
    /\ local.action = "CREATE_REPORT"
    /\ local.selectedDataSource # Undefined
    /\ local.selectedDataSource # local.defaultDataSource
    /\ "store.dicom:resolved" \in Range(effects)
    /\ outcome = "returned"

LoadTargetUnresolved ==
    /\ args.viewportId # Undefined => args.viewportId \notin GridViewportIds
    /\ args.viewportId = Undefined => args.activeViewportId \notin GridViewportIds

\* C7: loadSegmentationsForViewport throws when the requested viewportId, or in
\* its absence the active viewport id, is not in the grid, having called none of
\* createLabelmapForDisplaySet, addOrUpdateSegmentation and
\* addSegmentationRepresentation; when the viewport resolves it is the requested
\* one if one was requested, and the representation is attached to it.
C7_LoadNeedsAViewport ==
    cmd = "loadSegmentationsForViewport" =>
        /\ LoadTargetUnresolved =>
              pc = "done" /\ outcome = "threw" /\ effects = <<>>
        /\ (~LoadTargetUnresolved /\ args.segmentations # <<>>) =>
              /\ args.viewportId # Undefined => local.viewport = args.viewportId
              /\ args.viewportId = Undefined => local.viewport = args.activeViewportId
              /\ outcome = "returned" =>
                    local.viewport \in representations[local.segmentationId]

\* a requested viewport outside the grid while the active one is in it
C7_Witness ==
    /\ Done("loadSegmentationsForViewport")
    /\ args.viewportId # Undefined
    /\ args.viewportId \notin GridViewportIds
    /\ args.activeViewportId \in GridViewportIds
    /\ outcome = "threw"

GroupsOfCall == IF local.toolGroupIds.defined THEN local.toolGroupIds.ids ELSE <<>>
NamesOfCall ==
    IF args.toolNames.kind = "array" THEN args.toolNames.list
    ELSE IF args.toolNames.kind = "undefined" /\ cmd = "setThresholdRange"
         THEN DefaultThresholdToolNames
    ELSE <<>>
ValueOfCall == IF cmd = "setBrushSize" THEN Number(args.value) ELSE args.value
FnOfCall ==
    IF cmd = "setBrushSize" THEN "setBrushSizeForToolGroup" ELSE "setToolConfiguration"
CallsFor(toolGroupId, toolName) ==
    Cardinality({k \in 1..Len(toolCalls) :
                    /\ toolCalls[k].toolGroupId = toolGroupId
                    /\ toolCalls[k].toolName = toolName})
ToolCommandDone == pc = "done" /\ cmd \in {"setBrushSize", "setThresholdRange"}

NamedCallsOncePerPair ==
    /\ \A k \in 1..Len(toolCalls) :
          /\ toolCalls[k].fn = FnOfCall
          /\ toolCalls[k].value = ValueOfCall
          /\ toolCalls[k].toolGroupId \in Range(GroupsOfCall)
    /\ \A g \in Range(GroupsOfCall), t \in Range(NamesOfCall) :
          CallsFor(g, t) = Count(GroupsOfCall, g) * Count(NamesOfCall, t)
    /\ GroupsOfCall = <<>> => toolCalls = <<>>

\* C8, as stated: setBrushSize and setThresholdRange make one call for every pair
\* of a tool group id and a tool name of toolNames, none for any other tool, and
\* none at all without tool groups.
C8_Original ==
    ToolCommandDone =>
        /\ NamedCallsOncePerPair
        /\ \A k \in 1..Len(toolCalls) : toolCalls[k].toolName \in Range(NamesOfCall)

\* C8, amended: as stated, except that setBrushSize given an empty toolNames array
\* makes one call per tool group without a tool name (sizing every brush tool of
\* the group); no other call names no tool.
C8_ToolCallsPerGroupAndName ==
    ToolCommandDone =>
        /\ NamedCallsOncePerPair
        /\ \A g \in Range(GroupsOfCall) :
              CallsFor(g, NoToolName) =
                  IF cmd = "setBrushSize" /\ args.toolNames.kind = "array"
                     /\ args.toolNames.list = <<>>
                  THEN Count(GroupsOfCall, g) ELSE 0
        /\ \A k \in 1..Len(toolCalls) :
              toolCalls[k].toolName \in Range(NamesOfCall) \cup {NoToolName}

\* setBrushSize with an empty toolNames array over two tool groups
C8_Witness ==
    /\ Done("setBrushSize")
    /\ args.toolNames.kind = "array" /\ args.toolNames.list = <<>>
    /\ Len(GroupsOfCall) = 2
    /\ Len(toolCalls) = 2

\* C9: dispatching any command name of the definitions table invokes one of the
\* actions of the module.
C9_EveryCommandIsBound ==
    pc # "idle" => invoked \in Actions

\* C10: in storeSegmentation, DicomMetadataStore.addInstances is called at most
\* once and only after store.dicom has resolved; never when it rejected.
C10_IndexOnlyAfterSuccessfulWrite ==
    cmd = "storeSegmentation" =>
        /\ Count(effects, "DicomMetadataStore.addInstances") <= 1
        /\ \A i \in 1..Len(effects) :
              effects[i] = "DicomMetadataStore.addInstances" =>
                  \E j \in 1..(i - 1) : effects[j] = "store.dicom:resolved"
        /\ "store.dicom:rejected" \in Range(effects) =>
              "DicomMetadataStore.addInstances" \notin Range(effects)

\* the write resolved and the instance was indexed after it
C10_Witness ==
    /\ Done("storeSegmentation")
    /\ "DicomMetadataStore.addInstances" \in Range(effects)
    /\ effects[Len(effects)] = "DicomMetadataStore.addInstances"
    /\ effects[Len(effects) - 1] = "store.dicom:resolved"

StoreWork ==
    {"generateSegmentation", "store.dicom", "store.dicom:resolved",
     "store.dicom:rejected", "DicomMetadataStore.addInstances"}

\* C11: storeSegmentation whose prompt resolved with an action other than
\* CREATE_REPORT returns normally with no dataset and has neither generated the
\* segmentation, written through the data source nor updated the metadata
\* index; for an unknown segmentation id it throws without prompting the user.
C11_CancelledStoreDoesNothing ==
    cmd = "storeSegmentation" =>
        /\ (pc = "done" /\ local.action \notin {Undefined, "CREATE_REPORT"}) =>
              /\ outcome = "returned"
              /\ ret = NoRet
              /\ Range(effects) \cap StoreWork = {}
              /\ labelmap3D = NoLabelmap3D
        /\ args.segmentationId \notin DOMAIN ohifSegmentations =>
              /\ pc = "done" /\ outcome = "threw"
              /\ "createReportDialogPrompt" \notin Range(effects)

\* the user was prompted for a known segmentation and cancelled
C11_Witness ==
    /\ Done("storeSegmentation")
    /\ local.action = "CANCEL"
    /\ effects = <<"createReportDialogPrompt">>
    /\ outcome = "returned"

====
